---------------------------- MODULE Spec2Model ----------------------------
(***************************************************************************)
(* gvltctl (src/src/main.rs): the key commands of the Gevulot control CLI.  *)
(*                                                                         *)
(* One run of the program is one pass  main -> handler -> exit.  The model *)
(* follows generate_key (keygen) and compute_key (compute-key) statement   *)
(* by statement and keeps the dispatch of main around them.  The           *)
(* primitives the handlers call in the bip32 and cosmrs crates (BIP-39     *)
(* codec, PBKDF2, BIP-32 child derivation, secp256k1, bech32) are computed *)
(* over scaled-down domains: same structure, small numbers.                *)
(***************************************************************************)
EXTENDS Integers, Sequences, FiniteSets, TLC

(***************************************************************************)
(* Bounds of the model.                                                    *)
(***************************************************************************)
\* Entropy values the random source can draw and a user can type: 0..MaxEntropy.
MaxEntropy == 2

(***************************************************************************)
(* Option and Result values, as in the Rust code.                          *)
(***************************************************************************)
None == [some |-> FALSE]

Some(v) == [some |-> TRUE, val |-> v]

Ok(v) == [ok |-> TRUE, val |-> v]

Err(e) == [ok |-> FALSE, err |-> e]

(***************************************************************************)
(* MnemonicCodec (bip32::Mnemonic).  A phrase is a sequence of words; a    *)
(* word is its number in the 2048-word list, and a number from 2048 up     *)
(* stands for a string that is not in the list.  In the scaled-down codec  *)
(* the last word carries the checksum and the words before it the entropy. *)
(***************************************************************************)
WordlistSize == 2048

EntropySizes == {128, 160, 192, 224, 256}

\* Mnemonic::random draws 32 bytes of entropy.
RandomEntropyBits == 256

Entropies == 0..MaxEntropy

\* words = (entropy bits + checksum bits) / 11, checksum bits = entropy bits / 32
WordCount(bits) == (bits + bits \div 32) \div 11

\* the inverse: entropy bits of a phrase of n words
EntropyBitsOfWords(n) == (n * 11 * 32) \div 33

\* leading bits of the hash of the entropy (scaled down)
Checksum(ent) == (ent * 7 + 3) % WordlistSize

\* generate: entropy || checksum, mapped to words
MnemonicPhrase(m) ==
    LET n == WordCount(m.bits)
    IN  [i \in 1..n |-> IF i < n - 1 THEN 0
                        ELSE IF i = n - 1 THEN m.ent
                        ELSE Checksum(m.ent)]

RECURSIVE WordsToEntropy(_, _)
\* concatenates the bits of the first k words
WordsToEntropy(phrase, k) ==
    IF k = 0 THEN 0 ELSE WordsToEntropy(phrase, k - 1) * WordlistSize + phrase[k]

\* parse: every word looked up in the wordlist first, the checksum verified
\* after; checked records whether the checksum verification was reached
ParseMnemonic(phrase) ==
    IF \E i \in 1..Len(phrase) : phrase[i] >= WordlistSize
    THEN [ok |-> FALSE, err |-> "UnknownWordError", checked |-> FALSE]
    ELSE LET n   == Len(phrase)
             ent == WordsToEntropy(phrase, n - 1)
         IN  IF phrase[n] # Checksum(ent)
             THEN [ok |-> FALSE, err |-> "ChecksumMismatchError", checked |-> TRUE]
             ELSE [ok |-> TRUE, checked |-> TRUE,
                   val |-> [bits |-> EntropyBitsOfWords(n), ent |-> ent]]

(***************************************************************************)
(* DerivationPath ("m/44'/118'/0'/0/0".parse()).  The literal is a         *)
(* sequence of characters; parsing splits it on "/", wants "m" first and   *)
(* reads each further segment as decimal digits with an optional trailing  *)
(* "'" that marks the segment hardened.                                    *)
(***************************************************************************)
\* a variant of generate_key's literal with the change segment hardened:
\* "m/44'/118'/0'/0'/0"
GenerateKeyChildPathHardenedChange ==
    <<"m", "/", "4", "4", "'", "/", "1", "1", "8", "'", "/", "0", "'", "/", "0", "'", "/", "0">>

\* generate_key: let child_path = "m/44'/118'/0'/0/0";
GenerateKeyChildPath ==
    <<"m", "/", "4", "4", "'", "/", "1", "1", "8", "'", "/", "0", "'", "/", "0", "/", "0">>

\* a variant of compute_key's literal with another coin type: "m/44'/60'/0'/0/0"
ComputeKeyChildPathCoin60 ==
    <<"m", "/", "4", "4", "'", "/", "6", "0", "'", "/", "0", "'", "/", "0", "/", "0">>

\* compute_key: let child_path = "m/44'/118'/0'/0/0";
ComputeKeyChildPath ==
    <<"m", "/", "4", "4", "'", "/", "1", "1", "8", "'", "/", "0", "'", "/", "0", "/", "0">>

DigitVal(c) ==
    CASE c = "0" -> 0 [] c = "1" -> 1 [] c = "2" -> 2 [] c = "3" -> 3 [] c = "4" -> 4
      [] c = "5" -> 5 [] c = "6" -> 6 [] c = "7" -> 7 [] c = "8" -> 8 [] c = "9" -> 9
      [] OTHER -> -1

RECURSIVE SplitSegments(_, _, _)
\* chars split on "/": cur is the segment being read, acc the segments read
SplitSegments(chars, cur, acc) ==
    IF chars = <<>> THEN Append(acc, cur)
    ELSE IF Head(chars) = "/" THEN SplitSegments(Tail(chars), <<>>, Append(acc, cur))
    ELSE SplitSegments(Tail(chars), Append(cur, Head(chars)), acc)

RECURSIVE DecimalValue(_, _)
\* the value of the first k digits
DecimalValue(digits, k) ==
    IF k = 0 THEN 0 ELSE DecimalValue(digits, k - 1) * 10 + DigitVal(digits[k])

\* ChildNumber::from_str
ParseChildNumber(seg) ==
    LET hardened == seg # <<>> /\ seg[Len(seg)] = "'"
        digits   == IF hardened THEN SubSeq(seg, 1, Len(seg) - 1) ELSE seg
    IN  IF digits = <<>> \/ \E i \in 1..Len(digits) : DigitVal(digits[i]) < 0
        THEN Err("InvalidPathSyntax")
        ELSE Ok([index |-> DecimalValue(digits, Len(digits)), hardened |-> hardened])

\* DerivationPath::from_str
ParsePath(chars) ==
    LET segs == SplitSegments(chars, <<>>, <<>>)
        nums == [i \in 1..(Len(segs) - 1) |-> ParseChildNumber(segs[i + 1])]
    IN  IF segs[1] # <<"m">> \/ \E i \in 1..Len(nums) : ~nums[i].ok
        THEN Err("InvalidPathSyntax")
        ELSE Ok([i \in 1..Len(nums) |-> nums[i].val])

(***************************************************************************)
(* SeedDeriver, HDDeriver, KeyCodec, AccountIdentity, scaled down: the     *)
(* 512-bit HMAC is a hash into 0..223 whose left part (h \div 16, 0..13)   *)
(* plays IL and whose right part (h % 16) plays IR; the curve order is 13  *)
(* and the group is the subgroup of order 13 of the integers modulo 53.    *)
(***************************************************************************)
CurveOrder == 13

Hmac(key, data) == (key * 5 + data * 17 + 17) % 224

Passwords == {"", "hunter2"}

\* the bytes of a salt string, as a number
StrCode(s) ==
    CASE s = "mnemonic" -> 1
      [] s = "mnemonichunter2" -> 6
      [] OTHER -> 9

\* Mnemonic::to_seed: PBKDF2 of the phrase, salted with "mnemonic" ++ password
ToSeed(m, pw) == Hmac(m.ent * 8 + m.bits \div 32, StrCode("mnemonic" \o pw))

RECURSIVE ScalarMul(_)
\* the public key of private key k: k times the base point
ScalarMul(k) == IF k = 0 THEN 1 ELSE (ScalarMul(k - 1) * 16) % 53

\* XPrv::new: the master key of a seed
MasterKey(seed) ==
    LET I  == Hmac(2, seed)
        IL == I \div 16
    IN  IF IL = 0 \/ IL >= CurveOrder
        THEN Err("DerivationArithmeticError")
        ELSE Ok([key |-> IL, chain |-> I % 16, depth |-> 0])

\* XPrv::derive_child
DeriveChild(parent, cn) ==
    LET data == IF cn.hardened THEN parent.key ELSE ScalarMul(parent.key)
        I    == Hmac(parent.chain,
                     data * 512 + cn.index * 2 + (IF cn.hardened THEN 1 ELSE 0))
        IL   == I \div 16
        k    == (IL + parent.key) % CurveOrder
    IN  IF IL >= CurveOrder \/ k = 0
        THEN Err("DerivationArithmeticError")
        ELSE Ok([key |-> k, chain |-> I % 16, depth |-> parent.depth + 1])

RECURSIVE DeriveAlong(_, _, _)
\* derive_child folded over the first k segments of the path
DeriveAlong(master, path, k) ==
    IF k = 0 THEN Ok(master)
    ELSE LET p == DeriveAlong(master, path, k - 1)
         IN  IF p.ok THEN DeriveChild(p.val, path[k]) ELSE p

\* XPrv::derive_from_path
DeriveFromPath(seed, path) ==
    LET m == MasterKey(seed)
    IN  IF m.ok THEN DeriveAlong(m.val, path, Len(path)) ELSE m

\* SigningKey::from_slice: a scalar in 1..order-1
SigningKeyFromSlice(k) ==
    IF k = 0 \/ k >= CurveOrder THEN Err("InvalidKeyMaterialError") ELSE Ok(k)

(***************************************************************************)
(* The state of one run of the program, and what outlives a run.           *)
(***************************************************************************)
VARIABLES
    lib,            \* the linked encoders: "sound", or the invariant they break
    pc,             \* the statement the run is at
    cmd,            \* the subcommand of the command line
    sub,            \* its nested subcommand, if the command line has one
    handler,        \* the arm of main the command line was dispatched to
    extra,          \* an argument of the command line no subcommand registers
    matches,        \* the arguments of the command line the run is given
    mnemonic,       \* locals of generate_key / compute_key
    password,
    seed,
    path,
    child_xprv,
    child_xprv_str,
    child_xpub_str,
    sk,
    account_id,
    client,         \* what the network client builder has been handed
    submitted,      \* the token transfer the run has submitted
    stages,         \* the stages the handler has run, in order
    stdout,         \* the lines the run has printed
    fs,             \* the files on disk
    fs0,            \* the files on disk when the run started
    handler_result, \* how the dispatched handler ended
    main_result,    \* what main returned
    exit_status,    \* the exit status of the process
    prev,           \* an earlier run, as an observer noted it
    other           \* the invocation that runs beside this one, while suspended

locals == <<mnemonic, password, seed, path, child_xprv, child_xprv_str,
            child_xpub_str, sk, account_id>>

vars == <<lib, pc, cmd, sub, handler, extra, matches, mnemonic, password, seed, path, child_xprv,
          child_xprv_str, child_xpub_str, sk, account_id, client, submitted, stages,
          stdout, fs, fs0, handler_result, main_result, exit_status, prev, other>>

\* what the encoders of the linked libraries can do to the invariants the
\* handlers check on their results
LibOutcomes == {"sound", "xprv_prefix", "xpub_prefix", "account_id"}

KeyCommands == {"keygen", "compute-key"}

\* subcommands whose handlers talk to the network
ChainCommands == {"send", "account-info"}

Commands == KeyCommands \cup ChainCommands

\* setup_command_line_args: the subcommands registered on the top-level command
\* in main.rs ("sudo" and, on linux, "build" are registered from commands/)
TopLevelCommands ==
    {"worker", "pin", "task", "workflow", "keygen", "compute-key", "send",
     "account-info", "generate-completion"}

\* setup_command_line_args: the nested subcommands registered under c
Subcommands(c) ==
    CASE c = "worker" -> {"list", "get", "create", "delete"}
      [] c = "pin" -> {"list", "get", "ack", "create", "delete"}
      [] c = "task" -> {"list", "get", "create", "accept", "decline", "finish"}
      [] c = "workflow" -> {"list", "get", "create", "delete"}
      [] OTHER -> {}

\* setup_command_line_args: .subcommand_required(true) on the top-level command
\* ("") and on worker, pin, task and workflow
SubcommandRequired == {"", "worker", "pin", "task", "workflow"}

\* the subcommand paths registered in main.rs
RegisteredPaths ==
    {<<c>> : c \in {t \in TopLevelCommands : Subcommands(t) = {}}}
        \cup UNION {{<<c, n>> : n \in Subcommands(c)} : c \in TopLevelCommands}

\* the subcommand paths a user types: the registered ones, no subcommand at all,
\* a group without its nested subcommand, a nested name the group does not
\* register, and a name the top level does not register
CommandLines ==
    RegisteredPaths \cup {<<>>, <<"worker">>, <<"worker", "ack">>, <<"keys">>}

\* a variant of the arms of main in which "pin ack" has no arm
DispatchArmsWithoutAck ==
    <<[path |-> <<"worker", "list">>, handler |-> "list_workers"],
      [path |-> <<"worker", "get">>, handler |-> "get_worker"],
      [path |-> <<"worker", "create">>, handler |-> "create_worker"],
      [path |-> <<"worker", "delete">>, handler |-> "delete_worker"],
      [path |-> <<"pin", "list">>, handler |-> "list_pins"],
      [path |-> <<"pin", "get">>, handler |-> "get_pin"],
      [path |-> <<"pin", "create">>, handler |-> "create_pin"],
      [path |-> <<"pin", "delete">>, handler |-> "delete_pin"],
      [path |-> <<"task", "list">>, handler |-> "list_tasks"],
      [path |-> <<"task", "get">>, handler |-> "get_task"],
      [path |-> <<"task", "create">>, handler |-> "create_task"],
      [path |-> <<"task", "accept">>, handler |-> "accept_task"],
      [path |-> <<"task", "decline">>, handler |-> "decline_task"],
      [path |-> <<"task", "finish">>, handler |-> "finish_task"],
      [path |-> <<"workflow", "list">>, handler |-> "list_workflows"],
      [path |-> <<"workflow", "get">>, handler |-> "get_workflow"],
      [path |-> <<"workflow", "create">>, handler |-> "create_workflow"],
      [path |-> <<"workflow", "delete">>, handler |-> "delete_workflow"],
      [path |-> <<"sudo", "delete-pin">>, handler |-> "sudo_delete_pin"],
      [path |-> <<"sudo", "delete-worker">>, handler |-> "sudo_delete_worker"],
      [path |-> <<"sudo", "delete-task">>, handler |-> "sudo_delete_task"],
      [path |-> <<"sudo", "freeze-account">>, handler |-> "sudo_freeze_account"],
      [path |-> <<"keygen">>, handler |-> "generate_key"],
      [path |-> <<"compute-key">>, handler |-> "compute_key"],
      [path |-> <<"send">>, handler |-> "send_tokens"],
      [path |-> <<"account-info">>, handler |-> "account_info"],
      [path |-> <<"generate-completion">>, handler |-> "generate_completion"]>>

\* main: the arms of the match on the subcommand, in the order of the code
DispatchArms ==
    <<[path |-> <<"worker", "list">>, handler |-> "list_workers"],
      [path |-> <<"worker", "get">>, handler |-> "get_worker"],
      [path |-> <<"worker", "create">>, handler |-> "create_worker"],
      [path |-> <<"worker", "delete">>, handler |-> "delete_worker"],
      [path |-> <<"pin", "list">>, handler |-> "list_pins"],
      [path |-> <<"pin", "get">>, handler |-> "get_pin"],
      [path |-> <<"pin", "create">>, handler |-> "create_pin"],
      [path |-> <<"pin", "delete">>, handler |-> "delete_pin"],
      [path |-> <<"pin", "ack">>, handler |-> "ack_pin"],
      [path |-> <<"task", "list">>, handler |-> "list_tasks"],
      [path |-> <<"task", "get">>, handler |-> "get_task"],
      [path |-> <<"task", "create">>, handler |-> "create_task"],
      [path |-> <<"task", "accept">>, handler |-> "accept_task"],
      [path |-> <<"task", "decline">>, handler |-> "decline_task"],
      [path |-> <<"task", "finish">>, handler |-> "finish_task"],
      [path |-> <<"workflow", "list">>, handler |-> "list_workflows"],
      [path |-> <<"workflow", "get">>, handler |-> "get_workflow"],
      [path |-> <<"workflow", "create">>, handler |-> "create_workflow"],
      [path |-> <<"workflow", "delete">>, handler |-> "delete_workflow"],
      [path |-> <<"sudo", "delete-pin">>, handler |-> "sudo_delete_pin"],
      [path |-> <<"sudo", "delete-worker">>, handler |-> "sudo_delete_worker"],
      [path |-> <<"sudo", "delete-task">>, handler |-> "sudo_delete_task"],
      [path |-> <<"sudo", "freeze-account">>, handler |-> "sudo_freeze_account"],
      [path |-> <<"keygen">>, handler |-> "generate_key"],
      [path |-> <<"compute-key">>, handler |-> "compute_key"],
      [path |-> <<"send">>, handler |-> "send_tokens"],
      [path |-> <<"account-info">>, handler |-> "account_info"],
      [path |-> <<"generate-completion">>, handler |-> "generate_completion"]>>

\* main: the subcommands whose arm is a nested match with a fallback of its own
ArmGroups == {"worker", "pin", "task", "workflow", "sudo"}

\* the "Unknown ... command" fallbacks of main
UnknownFallbacks ==
    {"Unknown command"} \cup {"Unknown " \o g \o " command" : g \in ArmGroups}

\* main: the first arm that matches the subcommand path p, or the fallback of
\* the match that p falls through
Dispatch(p) ==
    LET hits == {i \in 1..Len(DispatchArms) : DispatchArms[i].path = p}
    IN  IF hits # {}
        THEN DispatchArms[CHOOSE i \in hits : \A j \in hits : i <= j].handler
        ELSE IF p # <<>> /\ p[1] \in ArmGroups
             THEN "Unknown " \o p[1] \o " command"
             ELSE "Unknown command"

\* main: the match on the subcommand, for each command line of the model
Dispatched == [p \in CommandLines |-> Dispatch(p)]

\* the first statement of a handler
EntryPoint(h) ==
    CASE h = "generate_key" -> "kg_mnemonic"
      [] h = "compute_key" -> "ck_mnemonic"
      [] h \in {"send_tokens", "account_info"} -> "connect"
      [] h \in {"list_workflows", "get_workflow", "create_workflow",
                 "delete_workflow"} -> "workflow"
      [] h = "generate_completion" -> "completion"
      [] OTHER -> "commands"

Formats == {"yaml", "json", "prettyjson", "toml", "xml"}

\* the formats the commands other than keygen and compute-key are run with
ChainFormats == {"yaml", "xml"}

FileNames == {"key.txt"}

\* a path a caller may want instead of the canonical one
OtherPath ==
    <<"m", "/", "4", "4", "'", "/", "6", "0", "'", "/", "0", "'", "/", "0", "/", "1">>

\* arguments a caller may put on the command line beyond the registered ones
ExtraArgs ==
    {[name |-> "path", value |-> OtherPath]}
        \cup {[name |-> "entropy-bits", value |-> b] : b \in {128, 256, 100}}

\* the phrases a user types: the phrase of an entropy, the same with a wrong
\* checksum word, with a word that is not in the list, and with both
WithWord(phrase, i, w) == [phrase EXCEPT ![i] = w]

UserPhrases ==
    LET good(e) == MnemonicPhrase([bits |-> RandomEntropyBits, ent |-> e])
        n       == WordCount(RandomEntropyBits)
    IN  {good(e) : e \in Entropies}
            \cup {WithWord(good(0), n, Checksum(0) + 1),
                  WithWord(good(0), 3, WordlistSize),
                  WithWord(WithWord(good(0), 3, WordlistSize), n, Checksum(0) + 1)}

\* a variant of the registration in which the key commands take a path
RegisteredArgsWithPath(c) ==
    CASE c = "keygen" -> {"file", "password", "format", "path"}
      [] c = "compute-key" -> {"mnemonic", "password", "format", "path"}
      [] c = "generate-completion" -> {"shell", "file"}
      [] OTHER -> {"endpoint", "gas_price", "gas_multiplier", "mnemonic",
                   "password", "format"}

\* setup_command_line_args: the arguments each subcommand registers
RegisteredArgs(c) ==
    CASE c = "keygen" -> {"file", "password", "format"}
      [] c = "compute-key" -> {"mnemonic", "password", "format"}
      [] c = "generate-completion" -> {"shell", "file"}
      [] OTHER -> {"endpoint", "gas_price", "gas_multiplier", "mnemonic",
                   "password", "format"}

\* compute-key: Arg::new("mnemonic").required(true)
RequiredArgs(c) == IF c = "compute-key" THEN {"mnemonic"} ELSE {}

\* clap: the subcommand paths get_matches accepts; a command that requires a
\* subcommand is rejected without one, and so is a name that is not registered
ClapAccepts(p) ==
    \/ p = <<>> /\ "" \notin SubcommandRequired
    \/ /\ Len(p) = 1 /\ p[1] \in TopLevelCommands
       /\ (Subcommands(p[1]) = {} \/ p[1] \notin SubcommandRequired)
    \/ Len(p) = 2 /\ p[1] \in TopLevelCommands /\ p[2] \in Subcommands(p[1])

\* an argument as setup_command_line_args builds it: its id, its short flag and
\* its long name ("" where the argument has none)
Flag(id, short, long) == [id |-> id, short |-> short, long |-> long]

\* an argument without .short() and .long(): a positional one
Positional(id) == Flag(id, "", "")

\* setup_command_line_args: chain_args
ChainArgs ==
    {Flag("endpoint", "e", "endpoint"), Flag("gas_price", "g", "gas-price"),
     Flag("gas_multiplier", "m", "gas-multiplier"), Flag("mnemonic", "n", "mnemonic"),
     Flag("password", "n", "password"), Flag("format", "F", "format")}

\* setup_command_line_args: the arguments of the subcommand at path p
ArgsOf(p) ==
    CASE p = <<"keygen">> ->
            {Flag("file", "f", "file"), Flag("password", "p", "password"),
             Flag("format", "F", "format")}
      [] p = <<"compute-key">> ->
            {Flag("mnemonic", "", "mnemonic"), Flag("password", "", "password"),
             Flag("format", "F", "format")}
      [] p = <<"generate-completion">> ->
            {Positional("shell"), Flag("file", "f", "file")}
      [] p = <<"send">> -> {Positional("amount"), Positional("receiver")} \cup ChainArgs
      [] p = <<"account-info">> -> {Positional("address")} \cup ChainArgs
      [] p \in {<<"worker", "get">>, <<"task", "get">>, <<"workflow", "get">>} ->
            {Positional("id")} \cup ChainArgs
      [] p \in {<<"pin", "get">>, <<"pin", "ack">>} -> {Positional("cid")} \cup ChainArgs
      [] p \in {<<"worker", "create">>, <<"pin", "create">>, <<"task", "create">>,
                 <<"workflow", "create">>} ->
            {Flag("file", "f", "file")} \cup ChainArgs
      [] p \in {<<"task", "accept">>, <<"task", "decline">>} ->
            {Positional("id"), Positional("worker_id")} \cup ChainArgs
      [] p = <<"task", "finish">> ->
            {Positional("id"), Positional("exit_code"), Positional("stdout"),
             Positional("stderr"), Positional("error"), Positional("output_contexts")}
                \cup ChainArgs
      [] OTHER -> ChainArgs

NoMatches ==
    [mnemonic |-> None, password |-> None, file |-> None, format |-> None,
     amount |-> None]

NoResult == [kind |-> "none"]

Returned(e) == [kind |-> "err", err |-> e]

Panicked(e) == [kind |-> "panic", err |-> e]

\* the state of one invocation: its command line, the locals of its handler, what
\* it has printed and how it ended
Context ==
    [pc |-> pc, cmd |-> cmd, sub |-> sub, handler |-> handler, extra |-> extra,
     matches |-> matches, mnemonic |-> mnemonic, password |-> password,
     seed |-> seed, path |-> path, child_xprv |-> child_xprv,
     child_xprv_str |-> child_xprv_str, child_xpub_str |-> child_xpub_str,
     sk |-> sk, account_id |-> account_id, client |-> client,
     submitted |-> submitted, stages |-> stages, stdout |-> stdout, fs0 |-> fs0,
     handler_result |-> handler_result, main_result |-> main_result,
     exit_status |-> exit_status]

\* an invocation that has not started
IdleContext ==
    [pc |-> "idle", cmd |-> "none", sub |-> None, handler |-> None, extra |-> None,
     matches |-> NoMatches, mnemonic |-> None, password |-> None, seed |-> None,
     path |-> None, child_xprv |-> None, child_xprv_str |-> None,
     child_xpub_str |-> None, sk |-> None, account_id |-> None, client |-> None,
     submitted |-> None, stages |-> <<>>, stdout |-> <<>>,
     fs0 |-> [f \in FileNames |-> None], handler_result |-> NoResult,
     main_result |-> NoResult, exit_status |-> None]

Init ==
    /\ lib \in LibOutcomes
    /\ pc = "idle"
    /\ cmd = "none"
    /\ sub = None
    /\ handler = None
    /\ extra = None
    /\ matches = NoMatches
    /\ mnemonic = None /\ password = None /\ seed = None /\ path = None
    /\ child_xprv = None /\ child_xprv_str = None /\ child_xpub_str = None
    /\ sk = None /\ account_id = None
    /\ client = None
    /\ submitted = None
    /\ stages = <<>>
    /\ stdout = <<>>
    /\ fs = [f \in FileNames |-> None]
    /\ fs0 = fs
    /\ handler_result = NoResult
    /\ main_result = NoResult
    /\ exit_status = None
    /\ prev = None
    /\ other = IdleContext

(***************************************************************************)
(* The pieces of the handlers that are expressions of main.rs.             *)
(***************************************************************************)
\* a variant of generate_key's default: unwrap_or("hunter2".to_string())
GenerateKeyPasswordDefaulted(arg) == IF arg.some THEN arg.val ELSE "hunter2"

\* generate_key: _sub_m.get_one::<String>("password").cloned().unwrap_or("".to_string())
GenerateKeyPassword(arg) == IF arg.some THEN arg.val ELSE ""

\* a variant of compute_key's default that depends on what earlier runs left on
\* disk
ComputeKeyPasswordFromFile(arg) ==
    IF arg.some THEN arg.val ELSE IF fs["key.txt"].some THEN "hunter2" ELSE ""

\* compute_key: _sub_m.get_one::<String>("password").cloned().unwrap_or("".to_string())
ComputeKeyPassword(arg) == IF arg.some THEN arg.val ELSE ""

\* a variant of compute_key's parse that falls back to a default mnemonic when
\* the phrase is rejected
ComputeKeyMnemonicOrDefault(arg) ==
    LET r == ParseMnemonic(arg.val)
    IN  IF r.ok THEN r
        ELSE [ok |-> TRUE, checked |-> r.checked,
              val |-> [bits |-> RandomEntropyBits, ent |-> 0]]

\* compute_key: Mnemonic::new(_sub_m.get_one::<String>("mnemonic").unwrap(), English)
ComputeKeyMnemonicNew(arg) == ParseMnemonic(arg.val)

\* a variant of generate_key's mnemonic with 16 bytes of entropy
GenerateKeyMnemonicRandom128(e) == [bits |-> 128, ent |-> e]

\* generate_key: Mnemonic::random(OsRng, Default::default()), e what OsRng draws
GenerateKeyMnemonicRandom(e) == [bits |-> RandomEntropyBits, ent |-> e]

\* a variant in which compute_key derives along another path than generate_key
ChildPathOfSplit(c) == IF c = "keygen" THEN GenerateKeyChildPath ELSE OtherPath

\* the path literal of the handler of subcommand c
ChildPathOf(c) == IF c = "keygen" THEN GenerateKeyChildPath ELSE ComputeKeyChildPath

\* XPrv::to_string(Prefix::XPRV) and XPub::to_string(Prefix::XPUB): version
\* prefix, depth, chain code, key field
ExtendedKeyToString(prefix, depth, chain, key) ==
    [prefix |-> IF lib = "xprv_prefix" /\ prefix = "xprv" THEN "tprv"
                ELSE IF lib = "xpub_prefix" /\ prefix = "xpub" THEN "tpub"
                ELSE prefix,
     depth |-> depth, chain |-> chain, key |-> key]

\* str::starts_with on an encoded key
StartsWith(str, prefix) == str.prefix = prefix

\* PublicKey::account_id(hrp): the bech32 of the hash of the public key
AccountIdOf(pub, hrp) ==
    IF lib = "account_id" \/ hrp = ""
    THEN Err("EncodingError")
    ELSE Ok([hrp |-> hrp, hash |-> (pub * 3 + 1) % 53])

\* the hrp both handlers pass: account_id("gvlt")
AccountPrefix == "gvlt"

\* a variant of main that reports the handler's error and returns Ok(())
MainResultSwallowed(h) == [kind |-> "ok"]

\* main: handler(sub_m).await? , then Ok(())
MainResult(h) == IF h.kind = "err" THEN Returned(h.err) ELSE [kind |-> "ok"]

\* the exit status of the process: a panic aborts it with 101, an Err returned
\* from main exits with 1
ExitStatus(h) ==
    CASE h.kind = "panic" -> 101
      [] h.kind = "err" -> 1
      [] OTHER -> 0

\* what an observer notes of a run when it ends
Summary ==
    [cmd |-> cmd, phrase |-> IF cmd = "keygen"
                             THEN (IF mnemonic.some THEN Some(MnemonicPhrase(mnemonic.val))
                                   ELSE None)
                             ELSE matches.mnemonic,
     mnemonic |-> mnemonic, password |-> matches.password, seed |-> seed, account_id |-> account_id,
     result |-> handler_result]

(***************************************************************************)
(* main: the command line is parsed (clap ends the process with status 2   *)
(* on an argument the subcommand does not register, or a required one      *)
(* missing) and the subcommand's handler is dispatched.  The observer      *)
(* keeps its note of an earlier run across keygen and compute-key runs     *)
(* only.                                                                   *)
(***************************************************************************)
Start ==
    /\ pc \in {"idle", "exited"}
    /\ \E p \in CommandLines :
       \E x \in {None} \cup (IF p \in {<<k>> : k \in KeyCommands}
                             THEN {Some(a) : a \in ExtraArgs} ELSE {}),
          ph \in {None} \cup (IF p = <<"compute-key">>
                              THEN {Some(w) : w \in UserPhrases} ELSE {}) :
        LET c        == IF p = <<>> THEN "none" ELSE p[1]
            supplied == (IF x.some THEN {x.val.name} ELSE {})
                            \cup (IF ph.some THEN {"mnemonic"} ELSE {})
            parsed   == /\ ClapAccepts(p)
                        /\ supplied \subseteq RegisteredArgs(c)
                        /\ RequiredArgs(c) \subseteq supplied
            h        == Dispatched[p]
        IN  /\ cmd' = c
            /\ prev' = (IF c \in KeyCommands THEN prev ELSE None)
            /\ sub' = (IF Len(p) > 1 THEN Some(p[2]) ELSE None)
            /\ extra' = x
            /\ matches' = [NoMatches EXCEPT !.mnemonic = ph]
            /\ IF ~parsed
               THEN /\ pc' = "exited"
                    /\ exit_status' = Some(2)
                    /\ handler' = None
                    /\ stdout' = <<>>
                    /\ handler_result' = NoResult
               ELSE /\ exit_status' = None
                    /\ handler' = Some(h)
                    /\ IF h \in UnknownFallbacks
                       THEN /\ stdout' = <<[text |-> h]>>
                            /\ handler_result' = [kind |-> "ok"]
                            /\ pc' = "returned"
                       ELSE /\ stdout' = <<>>
                            /\ handler_result' = NoResult
                            /\ pc' = EntryPoint(h)
    /\ mnemonic' = None /\ password' = None /\ seed' = None /\ path' = None
    /\ child_xprv' = None /\ child_xprv_str' = None /\ child_xpub_str' = None
    /\ sk' = None /\ account_id' = None
    /\ client' = None
    /\ submitted' = None
    /\ stages' = <<>>
    /\ main_result' = NoResult
    /\ fs0' = fs
    /\ UNCHANGED <<lib, other, fs>>

\* generate_key: let mnemonic = Mnemonic::random(...)
GenerateKeyMnemonic ==
    /\ pc = "kg_mnemonic"
    /\ \E e \in Entropies : mnemonic' = Some(GenerateKeyMnemonicRandom(e))
    /\ stages' = Append(stages, "random")
    /\ pc' = "seed"
    /\ UNCHANGED <<lib, other, fs0, cmd, sub, handler, client, submitted, extra, matches, password, seed, path, child_xprv,
                   child_xprv_str, child_xpub_str, sk, account_id, stdout, fs,
                   handler_result, main_result, exit_status, prev>>

\* compute_key: let mnemonic = Mnemonic::new(...)?
ComputeKeyMnemonic ==
    /\ pc = "ck_mnemonic"
    /\ LET r == ComputeKeyMnemonicNew(matches.mnemonic)
       IN  /\ stages' = stages \o <<"mnemonic">>
                            \o (IF r.checked THEN <<"checksum">> ELSE <<>>)
           /\ IF r.ok
              THEN /\ mnemonic' = Some(r.val)
                   /\ pc' = "seed"
                   /\ UNCHANGED handler_result
              ELSE /\ handler_result' = Returned(r.err)
                   /\ pc' = "returned"
                   /\ UNCHANGED mnemonic
    /\ UNCHANGED <<lib, other, fs0, cmd, sub, handler, client, submitted, extra, matches, password, seed, path, child_xprv,
                   child_xprv_str, child_xpub_str, sk, account_id, stdout, fs,
                   main_result, exit_status, prev>>

\* both handlers: let password = ...; let seed = mnemonic.to_seed(&password);
DeriveSeed ==
    /\ pc = "seed"
    /\ \E pa \in {None} \cup {Some(pw) : pw \in Passwords} :
        LET pw == IF cmd = "keygen" THEN GenerateKeyPassword(pa)
                  ELSE ComputeKeyPassword(pa)
        IN  /\ matches' = [matches EXCEPT !.password = pa]
            /\ password' = Some(pw)
            /\ seed' = Some(ToSeed(mnemonic.val, pw))
    /\ stages' = Append(stages, "seed")
    /\ pc' = "derive"
    /\ UNCHANGED <<lib, other, fs0, cmd, sub, handler, client, submitted, extra, mnemonic, path, child_xprv, child_xprv_str,
                   child_xpub_str, sk, account_id, stdout, fs, handler_result,
                   main_result, exit_status, prev>>

\* both handlers: XPrv::derive_from_path(&seed, &child_path.parse()?)?
DeriveChildKey ==
    /\ pc = "derive"
    /\ LET p == ParsePath(ChildPathOf(cmd))
           d == DeriveFromPath(seed.val, p.val)
       IN  IF ~p.ok
           THEN /\ stages' = Append(stages, "path")
                /\ handler_result' = Returned(p.err)
                /\ pc' = "returned"
                /\ UNCHANGED <<path, child_xprv>>
           ELSE /\ stages' = stages \o <<"path", "derive">>
                /\ path' = Some(p.val)
                /\ IF d.ok
                   THEN /\ child_xprv' = Some(d.val)
                        /\ pc' = "encode"
                        /\ UNCHANGED handler_result
                   ELSE /\ handler_result' = Returned(d.err)
                        /\ pc' = "returned"
                        /\ UNCHANGED child_xprv
    /\ UNCHANGED <<lib, other, fs0, cmd, sub, handler, client, submitted, extra, matches, mnemonic, password, seed, child_xprv_str,
                   child_xpub_str, sk, account_id, stdout, fs, main_result,
                   exit_status, prev>>

\* both handlers: child_xprv.public_key(), the two to_string calls and the
\* assert! after each
EncodeKeys ==
    /\ pc = "encode"
    /\ LET k        == child_xprv.val
           xprv_str == ExtendedKeyToString("xprv", k.depth, k.chain, k.key)
           xpub_str == ExtendedKeyToString("xpub", k.depth, k.chain, ScalarMul(k.key))
       IN  IF ~StartsWith(xprv_str, "xprv")
           THEN /\ stages' = Append(stages, "xprv_str")
                /\ child_xprv_str' = Some(xprv_str)
                /\ handler_result' = Panicked("assertion failed")
                /\ pc' = "returned"
                /\ UNCHANGED child_xpub_str
           ELSE /\ stages' = stages \o <<"xprv_str", "xpub_str">>
                /\ child_xprv_str' = Some(xprv_str)
                /\ child_xpub_str' = Some(xpub_str)
                /\ IF ~StartsWith(xpub_str, "xpub")
                   THEN /\ handler_result' = Panicked("assertion failed")
                        /\ pc' = "returned"
                   ELSE /\ pc' = "signing_key"
                        /\ UNCHANGED handler_result
    /\ UNCHANGED <<lib, other, fs0, cmd, sub, handler, client, submitted, extra, matches, mnemonic, password, seed, path,
                   child_xprv, sk, account_id, stdout, fs, main_result,
                   exit_status, prev>>

\* both handlers: SigningKey::from_slice(&child_xprv.private_key().to_bytes())?
MakeSigningKey ==
    /\ pc = "signing_key"
    /\ LET r == SigningKeyFromSlice(child_xprv.val.key)
       IN  IF r.ok
           THEN /\ sk' = Some(r.val)
                /\ pc' = "account_id"
                /\ UNCHANGED handler_result
           ELSE /\ handler_result' = Returned(r.err)
                /\ pc' = "returned"
                /\ UNCHANGED sk
    /\ stages' = Append(stages, "signing_key")
    /\ UNCHANGED <<lib, other, fs0, cmd, sub, handler, client, submitted, extra, matches, mnemonic, password, seed, path,
                   child_xprv, child_xprv_str, child_xpub_str, account_id, stdout,
                   fs, main_result, exit_status, prev>>

\* both handlers: sk.public_key().account_id("gvlt").unwrap()
ComputeAccountId ==
    /\ pc = "account_id"
    /\ LET r == AccountIdOf(ScalarMul(sk.val), AccountPrefix)
       IN  IF r.ok
           THEN /\ account_id' = Some(r.val)
                /\ pc' = IF cmd = "keygen" THEN "file" ELSE "print_object"
                /\ UNCHANGED handler_result
           ELSE /\ handler_result' = Panicked(r.err)
                /\ pc' = "returned"
                /\ UNCHANGED account_id
    /\ stages' = Append(stages, "account_id")
    /\ UNCHANGED <<lib, other, fs0, cmd, sub, handler, client, submitted, extra, matches, mnemonic, password, seed, path,
                   child_xprv, child_xprv_str, child_xpub_str, sk, stdout, fs,
                   main_result, exit_status, prev>>

(***************************************************************************)
(* Output.  A printed line is a record: a value rendered in a format, or a *)
(* bare text.                                                              *)
(***************************************************************************)
Rendered(fmt, value) == [format |-> fmt, value |-> value]

\* print_object: the match on the format string
PrintObject(fmt, value) ==
    IF fmt \in {"yaml", "json", "prettyjson", "toml"}
    THEN <<Rendered(fmt, value)>>
    ELSE <<[text |-> "Unknown format"]>>

\* a variant of generate_key's match without the arm of "toml"
GenerateKeyPrintNoToml(fmt, output) ==
    IF fmt \in {"json", "prettyjson", "yaml"}
    THEN <<Rendered(fmt, output)>>
    ELSE <<[text |-> output.account_id], [text |-> output.mnemonic]>>

\* generate_key: the match on the format string
GenerateKeyPrint(fmt, output) ==
    IF fmt \in {"json", "prettyjson", "toml", "yaml"}
    THEN <<Rendered(fmt, output)>>
    ELSE <<[text |-> output.account_id], [text |-> output.mnemonic]>>

\* a variant of generate_key's output object that carries the seed as well
GenerateKeyOutputWithSeed ==
    [account_id |-> account_id.val, mnemonic |-> MnemonicPhrase(mnemonic.val),
     seed |-> seed.val]

\* generate_key: serde_json::json!({"account_id": account_id, "mnemonic": phrase})
GenerateKeyOutput ==
    [account_id |-> account_id.val, mnemonic |-> MnemonicPhrase(mnemonic.val)]

\* compute_key: serde_json::json!({ "account_id": account_id })
ComputeKeyOutput == [account_id |-> account_id.val]

\* a variant of the bytes written that leaves out the last word of the phrase
GenerateKeyFileBytesCut ==
    SubSeq(MnemonicPhrase(mnemonic.val), 1, Len(MnemonicPhrase(mnemonic.val)) - 1)

\* generate_key: phrase.as_bytes(), the bytes write_all is given
GenerateKeyFileBytes == MnemonicPhrase(mnemonic.val)

\* generate_key: if let Some(file) = ... { File::create(file)?; file.write_all(..)?; }
\* io is what the file system does: File::create truncates or creates the file
GenerateKeyFile ==
    /\ pc = "file"
    /\ \E f \in {None} \cup {Some(n) : n \in FileNames},
          io \in {"ok", "create_fails", "write_fails"} :
        /\ matches' = [matches EXCEPT !.file = f]
        /\ IF ~f.some
           THEN /\ io = "ok"
                /\ pc' = "print"
                /\ UNCHANGED <<fs, stages, handler_result>>
           ELSE /\ stages' = Append(stages, "file")
                /\ CASE io = "create_fails" ->
                          /\ handler_result' = Returned("io error")
                          /\ pc' = "returned"
                          /\ UNCHANGED fs
                     [] io = "write_fails" ->
                          /\ fs' = [fs EXCEPT ![f.val] = Some(<<>>)]
                          /\ handler_result' = Returned("io error")
                          /\ pc' = "returned"
                     [] OTHER ->
                          /\ fs' = [fs EXCEPT ![f.val] = Some(GenerateKeyFileBytes)]
                          /\ pc' = "print"
                          /\ UNCHANGED handler_result
    /\ UNCHANGED <<lib, other, fs0, cmd, sub, handler, client, submitted, extra, mnemonic, password, seed, path, child_xprv,
                   child_xprv_str, child_xpub_str, sk, account_id, stdout,
                   main_result, exit_status, prev>>

\* generate_key: match _sub_m.get_one::<String>("format") ... Ok(())
GenerateKeyPrintOutput ==
    /\ pc = "print"
    /\ \E fmt \in Formats :
        /\ matches' = [matches EXCEPT !.format = Some(fmt)]
        /\ stdout' = stdout \o GenerateKeyPrint(fmt, GenerateKeyOutput)
    /\ stages' = Append(stages, "print")
    /\ handler_result' = [kind |-> "ok"]
    /\ pc' = "returned"
    /\ UNCHANGED <<lib, other, fs0, cmd, sub, handler, client, submitted, extra, mnemonic, password, seed, path, child_xprv,
                   child_xprv_str, child_xpub_str, sk, account_id, fs,
                   main_result, exit_status, prev>>

\* compute_key: print_object(_sub_m, &output)?; Ok(())
ComputeKeyPrintOutput ==
    /\ pc = "print_object"
    /\ \E fmt \in Formats :
        /\ matches' = [matches EXCEPT !.format = Some(fmt)]
        /\ stdout' = stdout \o PrintObject(fmt, ComputeKeyOutput)
    /\ stages' = Append(stages, "print")
    /\ handler_result' = [kind |-> "ok"]
    /\ pc' = "returned"
    /\ UNCHANGED <<lib, other, fs0, cmd, sub, handler, client, submitted, extra, mnemonic, password, seed, path, child_xprv,
                   child_xprv_str, child_xpub_str, sk, account_id, fs,
                   main_result, exit_status, prev>>

\* a variant of the amount parse that reads an unparsable amount as 0
SendAmountParseLenient(chars) ==
    IF chars = <<>> \/ \E i \in 1..Len(chars) : DigitVal(chars[i]) < 0
    THEN Ok(0)
    ELSE Ok(DecimalValue(chars, Len(chars)))

\* send_tokens: amount.parse()?
SendAmountParse(chars) ==
    IF chars = <<>> \/ \E i \in 1..Len(chars) : DigitVal(chars[i]) < 0
    THEN Err("ParseIntError")
    ELSE Ok(DecimalValue(chars, Len(chars)))

\* the amounts a user types: "10", "7" and "1x"
Amounts == {<<"1", "0">>, <<"7">>, <<"1", "x">>}

Receiver == "gvlt1receiver"

\* the mnemonic a chain command is given, if any
ChainMnemonics ==
    {None, Some(MnemonicPhrase([bits |-> RandomEntropyBits, ent |-> 0]))}

\* connect_to_gevulot: what the calls client_builder.mnemonic(..) and
\* client_builder.password(..) hand to the builder of the network client
ClientBuilderHanded(mn, pa) == [mnemonic |-> mn, password |-> pa]

\* send_tokens: serde_json::json!({"success": true, "amount": .., "receiver": ..})
SendOutput(amount, receiver) ==
    [success |-> TRUE, amount |-> amount, receiver |-> receiver]

\* connect_to_gevulot: the builder is given the endpoint, the gas settings, the
\* mnemonic and the password of the command line; build().await? connects
ConnectToGevulot ==
    /\ pc = "connect"
    /\ \E mn \in ChainMnemonics,
          pa \in {None, Some("hunter2")},
          net \in {"ok", "fails"} :
        /\ matches' = [matches EXCEPT !.mnemonic = mn, !.password = pa]
        /\ client' = Some(ClientBuilderHanded(mn, pa))
        /\ IF net = "ok"
           THEN /\ pc' = (IF cmd = "send" THEN "send" ELSE "account_info")
                /\ UNCHANGED handler_result
           ELSE /\ handler_result' = Returned("connect error")
                /\ pc' = "returned"
    /\ stages' = Append(stages, "connect")
    /\ UNCHANGED <<lib, other, fs0, cmd, sub, handler, submitted, extra, mnemonic, password,
                   seed, path, child_xprv, child_xprv_str, child_xpub_str, sk,
                   account_id, stdout, fs, main_result, exit_status, prev>>

\* send_tokens after the connection: token_transfer(receiver, amount.parse()?)
\* .await?, then the success object is printed
SendTokens ==
    /\ pc = "send"
    /\ \E amount \in Amounts, net \in {"ok", "fails"}, fmt \in ChainFormats :
        LET a == SendAmountParse(amount)
        IN  /\ IF ~a.ok
               THEN /\ net = "ok" /\ fmt = "yaml"
                    /\ matches' = [matches EXCEPT !.amount = Some(amount)]
                    /\ handler_result' = Returned(a.err)
                    /\ stages' = Append(stages, "amount")
                    /\ UNCHANGED <<submitted, stdout>>
               ELSE /\ submitted' = Some([receiver |-> Receiver, amount |-> a.val])
                    /\ IF net = "fails"
                       THEN /\ fmt = "yaml"
                            /\ matches' = [matches EXCEPT !.amount = Some(amount)]
                            /\ handler_result' = Returned("rpc error")
                            /\ stages' = stages \o <<"amount", "transfer">>
                            /\ UNCHANGED stdout
                       ELSE /\ matches' = [matches EXCEPT !.amount = Some(amount),
                                                          !.format = Some(fmt)]
                            /\ stdout' = stdout \o PrintObject(fmt, SendOutput(amount, Receiver))
                            /\ handler_result' = [kind |-> "ok"]
                            /\ stages' = stages \o <<"amount", "transfer", "print">>
    /\ pc' = "returned"
    /\ UNCHANGED <<lib, other, fs0, cmd, sub, handler, client, extra, mnemonic, password,
                   seed, path, child_xprv, child_xprv_str, child_xpub_str, sk,
                   account_id, fs, main_result, exit_status, prev>>

\* account_info after the connection: get_account(..).await?,
\* get_account_balance(..).await?, then the account is printed
AccountInfo ==
    /\ pc = "account_info"
    /\ \E net \in {"ok", "fails"}, fmt \in ChainFormats :
        IF net = "fails"
        THEN /\ fmt = "yaml"
             /\ handler_result' = Returned("rpc error")
             /\ stages' = Append(stages, "account")
             /\ UNCHANGED <<matches, stdout>>
        ELSE /\ matches' = [matches EXCEPT !.format = Some(fmt)]
             /\ stdout' = stdout \o PrintObject(fmt, [account_number |-> 1, sequence |-> 0,
                                                       balance |-> "100"])
             /\ handler_result' = [kind |-> "ok"]
             /\ stages' = stages \o <<"account", "print">>
    /\ pc' = "returned"
    /\ UNCHANGED <<lib, other, fs0, cmd, sub, handler, client, submitted, extra, mnemonic,
                   password, seed, path, child_xprv, child_xprv_str, child_xpub_str,
                   sk, account_id, fs, main_result, exit_status, prev>>

\* get_workflow, create_workflow, delete_workflow: the line println! prints
WorkflowLine(n) ==
    CASE n = "get" -> "Getting a specific workflow"
      [] n = "create" -> "Creating a new workflow"
      [] OTHER -> "Deleting a workflow"

\* list_workflows, get_workflow, create_workflow, delete_workflow: a line is
\* printed and todo!() panics
WorkflowHandler ==
    /\ pc = "workflow"
    /\ \E fmt \in ChainFormats :
        IF sub.val = "list"
        THEN /\ matches' = [matches EXCEPT !.format = Some(fmt)]
             /\ stdout' = stdout \o PrintObject(fmt, [message |-> "Listing all workflows",
                                                       status |-> "not_implemented"])
        ELSE /\ fmt = "yaml"
             /\ stdout' = Append(stdout, [text |-> WorkflowLine(sub.val)])
             /\ UNCHANGED matches
    /\ handler_result' = Panicked("not yet implemented")
    /\ stages' = Append(stages, "workflow")
    /\ pc' = "returned"
    /\ UNCHANGED <<lib, other, fs0, cmd, sub, handler, client, submitted, extra, mnemonic,
                   password, seed, path, child_xprv, child_xprv_str, child_xpub_str,
                   sk, account_id, fs, main_result, exit_status, prev>>

\* generate_completion: the script is written to File::create(file)? or to stdout
GenerateCompletion ==
    /\ pc = "completion"
    /\ \E f \in {None} \cup {Some(n) : n \in FileNames}, io \in {"ok", "create_fails"} :
        /\ matches' = [matches EXCEPT !.file = f]
        /\ IF ~f.some
           THEN /\ io = "ok"
                /\ stdout' = Append(stdout, [text |-> "completions"])
                /\ handler_result' = [kind |-> "ok"]
                /\ UNCHANGED fs
           ELSE IF io = "create_fails"
           THEN /\ handler_result' = Returned("io error")
                /\ UNCHANGED <<fs, stdout>>
           ELSE /\ fs' = [fs EXCEPT ![f.val] = Some(<<"completions">>)]
                /\ handler_result' = [kind |-> "ok"]
                /\ UNCHANGED stdout
    /\ stages' = Append(stages, "completion")
    /\ pc' = "returned"
    /\ UNCHANGED <<lib, other, fs0, cmd, sub, handler, client, submitted, extra, mnemonic,
                   password, seed, path, child_xprv, child_xprv_str, child_xpub_str,
                   sk, account_id, main_result, exit_status, prev>>

\* the handlers of worker, pin and task in commands/: main sees the Result they
\* return
CommandsHandler ==
    /\ pc = "commands"
    /\ \E r \in {[kind |-> "ok"], Returned("command error")} : handler_result' = r
    /\ stages' = Append(stages, "commands")
    /\ pc' = "returned"
    /\ UNCHANGED <<lib, other, fs0, cmd, sub, handler, client, submitted, extra, matches,
                   mnemonic, password, seed, path, child_xprv, child_xprv_str,
                   child_xpub_str, sk, account_id, stdout, fs, main_result,
                   exit_status, prev>>

\* main: the handler's result reaches main and the process exits; what is left
\* of the run is its exit status and the files.  An observer may note the run.
MainExit ==
    /\ pc = "returned"
    /\ main_result' = (IF handler_result.kind = "panic" THEN NoResult
                       ELSE MainResult(handler_result))
    /\ exit_status' = Some(ExitStatus(IF handler_result.kind = "panic"
                                      THEN handler_result
                                      ELSE MainResult(handler_result)))
    /\ \E keep \in BOOLEAN :
        /\ (keep => cmd \in KeyCommands)
        /\ prev' = IF keep THEN Some(Summary) ELSE prev
    /\ mnemonic' = None /\ password' = None /\ seed' = None /\ path' = None
    /\ child_xprv' = None /\ child_xprv_str' = None /\ child_xpub_str' = None
    /\ sk' = None /\ account_id' = None
    /\ client' = None
    /\ submitted' = None
    /\ matches' = NoMatches
    /\ stages' = <<>>
    /\ stdout' = <<>>
    /\ pc' = "exited"
    /\ fs0' = fs
    /\ UNCHANGED <<lib, other, cmd, sub, handler, extra, fs, handler_result>>

Next ==
    \/ Start
    \/ GenerateKeyMnemonic
    \/ ComputeKeyMnemonic
    \/ DeriveSeed
    \/ DeriveChildKey
    \/ EncodeKeys
    \/ MakeSigningKey
    \/ ComputeAccountId
    \/ GenerateKeyFile
    \/ GenerateKeyPrintOutput
    \/ ComputeKeyPrintOutput
    \/ ConnectToGevulot
    \/ SendTokens
    \/ AccountInfo
    \/ WorkflowHandler
    \/ GenerateCompletion
    \/ CommandsHandler
    \/ MainExit

Spec == Init /\ [][Next]_vars

(***************************************************************************)
(* Two invocations side by side: two processes of the program started at   *)
(* the same time, each with a command line of its own.  They share the     *)
(* files; everything else an invocation has is its own.  The variables     *)
(* hold the invocation that is running, other the one that is suspended.   *)
(***************************************************************************)
\* a variant of the switch in which the mnemonic is shared by the invocations
SwitchSharingMnemonic ==
    /\ other' = Context
    /\ pc' = other.pc /\ cmd' = other.cmd /\ sub' = other.sub
    /\ handler' = other.handler /\ extra' = other.extra /\ matches' = other.matches
    /\ password' = other.password
    /\ seed' = other.seed /\ path' = other.path /\ child_xprv' = other.child_xprv
    /\ child_xprv_str' = other.child_xprv_str
    /\ child_xpub_str' = other.child_xpub_str
    /\ sk' = other.sk /\ account_id' = other.account_id /\ client' = other.client
    /\ submitted' = other.submitted /\ stages' = other.stages
    /\ stdout' = other.stdout /\ fs0' = other.fs0
    /\ handler_result' = other.handler_result /\ main_result' = other.main_result
    /\ exit_status' = other.exit_status
    /\ UNCHANGED <<lib, fs, prev, mnemonic>>

\* the scheduler suspends the running invocation and resumes the other one
Switch ==
    /\ other' = Context
    /\ pc' = other.pc /\ cmd' = other.cmd /\ sub' = other.sub
    /\ handler' = other.handler /\ extra' = other.extra /\ matches' = other.matches
    /\ mnemonic' = other.mnemonic /\ password' = other.password
    /\ seed' = other.seed /\ path' = other.path /\ child_xprv' = other.child_xprv
    /\ child_xprv_str' = other.child_xprv_str
    /\ child_xpub_str' = other.child_xpub_str
    /\ sk' = other.sk /\ account_id' = other.account_id /\ client' = other.client
    /\ submitted' = other.submitted /\ stages' = other.stages
    /\ stdout' = other.stdout /\ fs0' = other.fs0
    /\ handler_result' = other.handler_result /\ main_result' = other.main_result
    /\ exit_status' = other.exit_status
    /\ UNCHANGED <<lib, fs, prev>>

\* the invocations side by side are keygen and compute-key runs, one each,
\* printed as yaml or in an unknown format, and no observer notes them
Derivations ==
    /\ cmd \in KeyCommands
    /\ extra = None
    /\ matches.format \in {None, Some("yaml"), Some("xml")}
    /\ prev = None

\* one statement of either invocation, or a switch between them
NextConcurrent ==
    \/ pc = "idle" /\ Start /\ Derivations'
    \/ GenerateKeyMnemonic /\ Derivations'
    \/ ComputeKeyMnemonic /\ Derivations'
    \/ DeriveSeed /\ Derivations'
    \/ DeriveChildKey /\ Derivations'
    \/ EncodeKeys /\ Derivations'
    \/ MakeSigningKey /\ Derivations'
    \/ ComputeAccountId /\ Derivations'
    \/ GenerateKeyFile /\ Derivations'
    \/ GenerateKeyPrintOutput /\ Derivations'
    \/ ComputeKeyPrintOutput /\ Derivations'
    \/ MainExit /\ Derivations'
    \/ Switch

SpecConcurrent == Init /\ [][NextConcurrent]_vars

(***************************************************************************)
(* Properties.                                                             *)
(***************************************************************************)
\* the fallible stages of the two handlers, in the order of the code
FallibleStages == <<"mnemonic", "path", "derive", "signing_key", "account_id">>

IsFallible(st) == \E i \in 1..Len(FallibleStages) : FallibleStages[i] = st

\* s is the start of t
IsPrefix(s, t) == Len(s) <= Len(t) /\ \A i \in 1..Len(s) : s[i] = t[i]

\* a stage has run and has not produced its value
StageFailed(st) ==
    /\ \E i \in 1..Len(stages) : stages[i] = st
    /\ CASE st = "mnemonic" -> ~mnemonic.some
         [] st = "path" -> ~path.some
         [] st = "derive" -> ~child_xprv.some
         [] st = "signing_key" -> ~sk.some
         [] st = "account_id" -> ~account_id.some

\* the errors a stage can fail with
StageErrors(st) ==
    CASE st = "mnemonic" -> {"UnknownWordError", "ChecksumMismatchError"}
      [] st = "path" -> {"InvalidPathSyntax"}
      [] st = "derive" -> {"DerivationArithmeticError"}
      [] st = "signing_key" -> {"InvalidKeyMaterialError"}
      [] st = "account_id" -> {"EncodingError"}

\* the stage that ran last ("checksum" is the second half of "mnemonic")
LastStage ==
    IF stages[Len(stages)] = "checksum" THEN "mnemonic" ELSE stages[Len(stages)]

\* the fallible stages run in the fixed order
StagesInOrder ==
    LET ran == SelectSeq(stages, IsFallible)
    IN  IF cmd = "keygen" THEN IsPrefix(ran, Tail(FallibleStages))
        ELSE IsPrefix(ran, FallibleStages)

\* nothing printed, no file created or written
NoEffects == stdout = <<>> /\ fs = fs0

\* stage st, whenever it has failed, has ended the handler by returning its error,
\* with no later stage run and no effect
ShortCircuits(st) ==
    StageFailed(st) =>
        /\ pc = "returned"
        /\ handler_result.kind = "err"
        /\ handler_result.err \in StageErrors(st)
        /\ LastStage = st
        /\ NoEffects

\* C1: in keygen and compute-key the fallible stages (mnemonic parse, path parse,
\* child-key derivation, signing-key construction, account-id computation) run in
\* this order, and the first one that fails ends the handler with that error: no
\* later stage runs, nothing is printed and no file is created or written.
CE_C1 ==
    (cmd \in KeyCommands /\ pc # "exited") =>
        /\ StagesInOrder
        /\ \A i \in 1..Len(FallibleStages) : ShortCircuits(FallibleStages[i])

\* C1, for the stages whose result the handlers propagate with `?`: all of the
\* claim but the account-id stage, whose failure is unwrapped
C1_PropagatedStages ==
    (cmd \in KeyCommands /\ pc # "exited") =>
        /\ StagesInOrder
        /\ \A i \in 1..(Len(FallibleStages) - 1) : ShortCircuits(FallibleStages[i])
        /\ StageFailed("account_id") =>
              /\ pc = "returned" /\ handler_result.kind = "panic"
              /\ LastStage = "account_id" /\ NoEffects

\* an encoded key without its prefix, or an account identifier that could not
\* be encoded
EncodingViolated ==
    \/ child_xprv_str.some /\ ~StartsWith(child_xprv_str.val, "xprv")
    \/ child_xpub_str.some /\ ~StartsWith(child_xpub_str.val, "xpub")
    \/ StageFailed("account_id")

\* C2: in keygen and compute-key an encoding invariant violation (the encoded
\* private key not starting with "xprv", the encoded public key not starting
\* with "xpub", the account identifier failing to encode) is returned from the
\* handler as an EncodingError and never ends the process by a failed assertion
\* or unwrap.
CE_C2 ==
    (cmd \in KeyCommands /\ EncodingViolated) =>
        /\ handler_result = Returned("EncodingError")
        /\ handler_result.kind # "panic"

\* stage st has run in this run
Ran(st) == \E i \in 1..Len(stages) : stages[i] = st

\* C3: two compute-key runs given the same mnemonic and the same password end the
\* same way and with the same account_id, whatever ran before and between them.
Thm_C3 ==
    (/\ prev.some /\ prev.val.cmd = "compute-key"
     /\ cmd = "compute-key" /\ pc = "returned"
     /\ prev.val.phrase = matches.mnemonic
     /\ prev.val.password = matches.password) =>
        /\ prev.val.account_id = account_id
        /\ prev.val.result = handler_result

\* two compute-key runs with the same inputs have printed an account_id, the
\* second one after a keygen left a file behind
Witness_C3 ==
    /\ prev.some /\ prev.val.cmd = "compute-key"
    /\ cmd = "compute-key" /\ pc = "returned"
    /\ prev.val.phrase = matches.mnemonic
    /\ prev.val.password = matches.password
    /\ account_id.some /\ handler_result.kind = "ok"
    /\ fs["key.txt"].some

\* 44', 118', 0', 0, 0
CanonicalPath ==
    <<[index |-> 44, hardened |-> TRUE], [index |-> 118, hardened |-> TRUE],
      [index |-> 0, hardened |-> TRUE], [index |-> 0, hardened |-> FALSE],
      [index |-> 0, hardened |-> FALSE]>>

\* C4: keygen and compute-key derive along the same fixed path 44', 118', 0', 0, 0:
\* in every run of either command the path of the derivation is this one.
Thm_C4 ==
    (cmd \in KeyCommands /\ Ran("derive")) => path = Some(CanonicalPath)

\* a compute-key run has derived its key after a keygen run derived one
Witness_C4 ==
    /\ prev.some /\ prev.val.cmd = "keygen" /\ prev.val.account_id.some
    /\ cmd = "compute-key" /\ Ran("derive") /\ child_xprv.some

\* the first n segments of p are hardened and the rest, m of them, are not
HardenedThenOpen(p, n, m) ==
    /\ Len(p) = n + m
    /\ \A i \in 1..n : p[i].hardened
    /\ \A i \in (n + 1)..(n + m) : ~p[i].hardened

\* C5, as stated: the canonical path has four leading hardened segments followed
\* by two non-hardened ones.
CE_C5 == path.some => HardenedThenOpen(path.val, 4, 2)

\* C5, amended: the canonical path has three leading hardened segments followed
\* by two non-hardened ones.
Thm_C5 == path.some => HardenedThenOpen(path.val, 3, 2)

\* a keygen run has derived an account along its path
Witness_C5 == cmd = "keygen" /\ path.some /\ account_id.some

\* the command line supplies a path of its own
SuppliesPath == extra.some /\ extra.val.name = "path"

HasUnknownWord(phrase) ==
    \E i \in 1..Len(phrase) : phrase[i] \notin 0..(WordlistSize - 1)

\* the checksum word of the phrase is the checksum of its entropy words
ChecksumVerifies(phrase) ==
    phrase[Len(phrase)] = Checksum(WordsToEntropy(phrase, Len(phrase) - 1))

\* no seed derived, no account_id computed, nothing printed
NothingDerived == seed = None /\ account_id = None /\ stdout = <<>>

\* C8: compute-key accepts a phrase only if every word is in the wordlist and the
\* checksum verifies; a phrase with a word outside the list is rejected with
\* UnknownWordError before the checksum is verified, a phrase of listed words
\* with a wrong checksum with ChecksumMismatchError, and in both cases no seed
\* is derived and no account_id is output.
Thm_C8 ==
    (cmd = "compute-key" /\ Ran("mnemonic")) =>
        LET phrase == matches.mnemonic.val
        IN  /\ HasUnknownWord(phrase) =>
                  /\ handler_result = Returned("UnknownWordError")
                  /\ ~Ran("checksum")
                  /\ NothingDerived
            /\ (~HasUnknownWord(phrase) /\ ~ChecksumVerifies(phrase)) =>
                  /\ handler_result = Returned("ChecksumMismatchError")
                  /\ NothingDerived
            /\ (mnemonic.some \/ seed.some) =>
                  ~HasUnknownWord(phrase) /\ ChecksumVerifies(phrase)

\* a phrase with both an unknown word and a wrong checksum word has been rejected
Witness_C8 ==
    /\ cmd = "compute-key" /\ pc = "returned"
    /\ HasUnknownWord(matches.mnemonic.val)
    /\ matches.mnemonic.val[Len(matches.mnemonic.val)] # Checksum(0)
    /\ handler_result = Returned("UnknownWordError")

\* the word count of each entropy length
WordsFor(bits) ==
    CASE bits = 128 -> 12 [] bits = 160 -> 15 [] bits = 192 -> 18
      [] bits = 224 -> 21 [] bits = 256 -> 24 [] OTHER -> 0

\* the command line asks for an entropy length
AsksEntropyBits == extra.some /\ extra.val.name = "entropy-bits"

\* the phrase of a mnemonic has the word count of its entropy length and parses
\* back to the mnemonic
RoundTrips(m) ==
    /\ Len(MnemonicPhrase(m)) = WordsFor(m.bits)
    /\ ParseMnemonic(MnemonicPhrase(m)).ok
    /\ ParseMnemonic(MnemonicPhrase(m)).val = m

Thm_C10 ==
    /\ (cmd \in KeyCommands /\ seed.some /\ matches.password = None) =>
          password = Some("") /\ seed = Some(ToSeed(mnemonic.val, ""))
    /\ (/\ prev.some /\ prev.val.cmd \in KeyCommands /\ prev.val.seed.some
        /\ cmd \in KeyCommands /\ pc = "returned" /\ seed.some
        /\ prev.val.mnemonic = mnemonic
        /\ {prev.val.password, matches.password} = {None, Some("")}) =>
          /\ prev.val.seed = seed
          /\ prev.val.account_id = account_id

\* a keygen run without a password and a compute-key run with the empty password
\* have reached the same account_id for the same mnemonic
Witness_C10 ==
    /\ prev.some /\ prev.val.cmd = "keygen" /\ prev.val.password = None
    /\ cmd = "compute-key" /\ pc = "returned" /\ matches.password = Some("")
    /\ prev.val.mnemonic = mnemonic
    /\ account_id.some /\ prev.val.account_id = account_id

\* a printed line that renders an object, as against a line of bare text
IsRendered(line) == "value" \in DOMAIN line

\* what keygen has printed is nothing, the object {account_id, mnemonic}
\* rendered, or the account_id and the phrase on two lines
KeygenPrintsOnlyPublic ==
    \/ stdout = <<>>
    \/ /\ Len(stdout) = 1 /\ IsRendered(stdout[1])
       /\ DOMAIN stdout[1].value = {"account_id", "mnemonic"}
       /\ stdout[1].value.account_id = account_id.val
       /\ stdout[1].value.mnemonic = MnemonicPhrase(mnemonic.val)
    \/ /\ Len(stdout) = 2 /\ ~IsRendered(stdout[1]) /\ ~IsRendered(stdout[2])
       /\ stdout[1].text = account_id.val
       /\ stdout[2].text = MnemonicPhrase(mnemonic.val)

\* what compute-key has printed is nothing, the object {account_id} rendered, or
\* the line "Unknown format"
ComputeKeyPrintsOnlyPublic ==
    \/ stdout = <<>>
    \/ /\ Len(stdout) = 1 /\ IsRendered(stdout[1])
       /\ DOMAIN stdout[1].value = {"account_id"}
       /\ stdout[1].value.account_id = account_id.val
    \/ /\ Len(stdout) = 1 /\ ~IsRendered(stdout[1])
       /\ stdout[1].text = "Unknown format"

\* a file the run has changed holds the phrase of the run, or nothing yet
FilesHoldOnlyPhrase ==
    \A f \in FileNames :
        fs[f] # fs0[f] =>
            /\ cmd = "keygen" /\ mnemonic.some
            /\ fs[f] \in {Some(<<>>), Some(MnemonicPhrase(mnemonic.val))}

\* C11: in keygen and compute-key the seed, the extended private key and the
\* signing key stay inside the handler invocation: on every exit path nothing
\* but the account_id and (keygen) the mnemonic phrase is printed, a file the run
\* writes holds the phrase only, no network client is handed anything, and none
\* of the three is left once the handler has returned and the process exited.
Thm_C11 ==
    cmd \in KeyCommands =>
        /\ IF cmd = "keygen" THEN KeygenPrintsOnlyPublic ELSE ComputeKeyPrintsOnlyPublic
        /\ FilesHoldOnlyPhrase
        /\ client = None /\ submitted = None
        /\ pc = "exited" =>
              /\ seed = None /\ child_xprv = None /\ child_xprv_str = None /\ sk = None
              /\ main_result \in {NoResult, [kind |-> "ok"]}
                    \/ main_result.err \in {"UnknownWordError", "ChecksumMismatchError",
                                            "InvalidPathSyntax", "DerivationArithmeticError",
                                            "InvalidKeyMaterialError", "io error"}

\* a keygen run that holds a seed, a private key and a signing key has written
\* its file and printed its output
Witness_C11 ==
    /\ cmd = "keygen" /\ pc = "returned" /\ handler_result.kind = "ok"
    /\ seed.some /\ child_xprv.some /\ sk.some
    /\ matches.file.some /\ fs[matches.file.val].some /\ stdout # <<>>

\* what the builder of the network client has been handed
HandedKinds(cl) == {k \in DOMAIN cl : cl[k].some}

\* C12: for every command that connects to the network, the network client is
\* handed only a signing key handle produced by the derivation; it never
\* receives the seed.
CE_C12 ==
    (cmd \in ChainCommands /\ client.some) =>
        /\ HandedKinds(client.val) \subseteq {"signing_key"}
        /\ "seed" \notin HandedKinds(client.val)

\* C12, the part that holds: no seed is handed to the network client (the
\* commands that connect derive none), and no signing key either
C12_NoSeedHanded ==
    (cmd \in ChainCommands /\ client.some) =>
        /\ HandedKinds(client.val) \subseteq {"mnemonic", "password"}
        /\ seed = None /\ sk = None

\* the phrase of the run is on stdout: in the rendered object or on a line of
\* its own
PhrasePrinted ==
    \/ /\ Len(stdout) = 1 /\ IsRendered(stdout[1])
       /\ stdout[1].value.mnemonic = MnemonicPhrase(mnemonic.val)
    \/ /\ Len(stdout) = 2 /\ ~IsRendered(stdout[2])
       /\ stdout[2].text = MnemonicPhrase(mnemonic.val)

\* C14: a keygen run that succeeds has written the generated mnemonic to the file
\* named by --file when one is given, the file then holding exactly the phrase,
\* and has written the mnemonic to stdout, touching no file, when none is given.
Thm_C14 ==
    (cmd = "keygen" /\ pc = "returned" /\ handler_result.kind = "ok") =>
        /\ matches.file.some =>
              /\ fs[matches.file.val] = Some(MnemonicPhrase(mnemonic.val))
              /\ \A f \in FileNames \ {matches.file.val} : fs[f] = fs0[f]
        /\ ~matches.file.some => (fs = fs0 /\ PhrasePrinted)

\* C14, beside the claim: stdout carries the mnemonic also when a file is given
C14_PrintedWithFile ==
    (cmd = "keygen" /\ pc = "returned" /\ handler_result.kind = "ok") => PhrasePrinted

\* a keygen run has replaced what an earlier run left in the file by its phrase
Witness_C14 ==
    /\ cmd = "keygen" /\ pc = "returned" /\ handler_result.kind = "ok"
    /\ matches.file.some /\ fs0[matches.file.val].some
    /\ fs[matches.file.val] # fs0[matches.file.val]
    /\ fs[matches.file.val] = Some(MnemonicPhrase(mnemonic.val))

\* the same password: equal arguments, or none against the empty one
SamePassword(a, b) == a = b \/ {a, b} = {None, Some("")}

\* C15: keygen and compute-key agree: given the phrase a keygen run generated and
\* the password it was given (or none), compute-key succeeds with the account_id
\* that keygen reported.
Thm_C15 ==
    (/\ prev.some /\ prev.val.cmd = "keygen" /\ prev.val.result.kind = "ok"
     /\ cmd = "compute-key" /\ pc = "returned"
     /\ matches.mnemonic = prev.val.phrase
     /\ SamePassword(prev.val.password, matches.password)) =>
        /\ handler_result.kind = "ok"
        /\ account_id.some /\ account_id = prev.val.account_id
        /\ \/ stdout = <<Rendered(matches.format.val, [account_id |-> prev.val.account_id.val])>>
           \/ matches.format.val \notin {"yaml", "json", "prettyjson", "toml"}

\* compute-key has printed the account_id keygen reported, both given "hunter2"
Witness_C15 ==
    /\ prev.some /\ prev.val.cmd = "keygen" /\ prev.val.result.kind = "ok"
    /\ prev.val.password = Some("hunter2")
    /\ cmd = "compute-key" /\ pc = "returned" /\ handler_result.kind = "ok"
    /\ matches.mnemonic = prev.val.phrase /\ matches.password = Some("hunter2")
    /\ stdout = <<Rendered("json", [account_id |-> prev.val.account_id.val])>>

\* the success object of send is on stdout
SuccessPrinted ==
    \E i \in 1..Len(stdout) : IsRendered(stdout[i]) /\ stdout[i].value.success

\* the characters of an amount are not all decimal digits
Unparsable(chars) ==
    chars = <<>> \/ \E i \in 1..Len(chars) :
                       chars[i] \notin {"0", "1", "2", "3", "4", "5", "6", "7", "8", "9"}

\* C16: send prints the success object only after connecting succeeded, the
\* amount parsed and token_transfer returned Ok; if one of them fails the handler
\* returns an error and prints no success object, and with an unparsable amount
\* no token transfer is submitted.
Thm_C16 ==
    cmd = "send" =>
        /\ SuccessPrinted =>
              /\ handler_result.kind = "ok"
              /\ stages = <<"connect", "amount", "transfer", "print">>
              /\ ~Unparsable(matches.amount.val)
              /\ submitted.some
        /\ (pc = "returned" /\ stages # <<"connect", "amount", "transfer", "print">>) =>
              /\ handler_result.kind = "err"
              /\ stdout = <<>>
        /\ (pc = "returned" /\ stages = <<"connect">>) => submitted = None
        /\ (matches.amount.some /\ Unparsable(matches.amount.val)) =>
              /\ submitted = None
              /\ handler_result.kind = "err"
              /\ ~SuccessPrinted

\* send has printed its success object
Witness_C16 ==
    /\ cmd = "send" /\ pc = "returned" /\ SuccessPrinted
    /\ submitted = Some([receiver |-> Receiver, amount |-> 10])

\* no two arguments of the set share a short flag or a long name
UniqueFlags(args) ==
    \A a, b \in args :
        a # b =>
            /\ a.short # "" => a.short # b.short
            /\ a.long # "" => a.long # b.long

\* the subcommand path of the run
RunPath == IF sub.some THEN <<cmd, sub.val>> ELSE <<cmd>>

\* C17: in the argument set of every subcommand no two arguments share a short
\* flag or a long name; in particular the six shared chain arguments have
\* pairwise distinct short flags.
CE_C17 ==
    handler.some => UniqueFlags(ArgsOf(RunPath)) /\ UniqueFlags(ChainArgs)

\* C17, the part that holds: the long names are pairwise distinct everywhere, and
\* so are the short flags of keygen, compute-key and generate-completion
C17_LongNamesDistinct ==
    handler.some =>
        /\ \A a, b \in ArgsOf(RunPath) : (a # b /\ a.long # "") => a.long # b.long
        /\ cmd \in KeyCommands \cup {"generate-completion"} => UniqueFlags(ArgsOf(RunPath))

\* C18: keygen's effects are all-or-nothing: if it returns an error the file named
\* by --file has not been created or written; if it returns Ok the file (when
\* requested) has been written and the output printed, both with the same phrase.
CE_C18 ==
    (cmd = "keygen" /\ pc = "returned") =>
        /\ handler_result.kind = "err" => fs = fs0
        /\ handler_result.kind = "ok" =>
              /\ PhrasePrinted
              /\ matches.file.some =>
                    fs[matches.file.val] = Some(MnemonicPhrase(mnemonic.val))

\* C18, the part that holds: a keygen run that returns Ok has printed the phrase
\* and written the same phrase to the file requested; one that fails before the
\* file stage has touched no file
C18_OkAndEarlyErrors ==
    (cmd = "keygen" /\ pc = "returned") =>
        /\ handler_result.kind = "ok" =>
              /\ PhrasePrinted
              /\ matches.file.some =>
                    fs[matches.file.val] = Some(MnemonicPhrase(mnemonic.val))
        /\ (handler_result.kind # "ok" /\ ~Ran("file")) => fs = fs0
        /\ handler_result.kind # "ok" => stdout = <<>>

\* C19, as stated: keygen treats --format as print_object does: for every format
\* value it prints what print_object prints for the same output object.
CE_C19 ==
    (cmd = "keygen" /\ Ran("print")) =>
        LET shown == PrintObject(matches.format.val, GenerateKeyOutput)
        IN  Len(stdout) = Len(shown) /\ stdout = shown

\* C19, amended: for yaml, json, prettyjson and toml keygen prints what
\* print_object prints for the same output object; for any other format value
\* keygen prints the account_id and the mnemonic on two lines, where
\* print_object prints "Unknown format".
Thm_C19 ==
    (cmd = "keygen" /\ Ran("print")) =>
        LET fmt   == matches.format.val
            shown == PrintObject(fmt, GenerateKeyOutput)
        IN  IF fmt \in {"yaml", "json", "prettyjson", "toml"}
            THEN /\ stdout = shown
                 /\ stdout = <<[format |-> fmt,
                                value |-> [account_id |-> account_id.val,
                                           mnemonic |-> MnemonicPhrase(mnemonic.val)]]>>
            ELSE /\ shown = <<[text |-> "Unknown format"]>>
                 /\ Len(stdout) = 2
                 /\ stdout[1] = [text |-> account_id.val]
                 /\ stdout[2] = [text |-> MnemonicPhrase(mnemonic.val)]

\* keygen has printed with a format outside the four
Witness_C19 ==
    /\ cmd = "keygen" /\ Ran("print") /\ matches.format = Some("xml")
    /\ Len(stdout) = 2

\* the arms of main that match the path p
ArmsOf(p) == {i \in 1..Len(DispatchArms) : DispatchArms[i].path = p}

\* C20: dispatch is total and one-to-one for the subcommands registered in
\* main.rs: every registered path has exactly one arm in main, every arm (those
\* of sudo apart, which is registered in commands/) names a registered path, no
\* two arms share a handler, and a command line that parsed is dispatched to
\* the handler of its arm, never to an "Unknown ... command" fallback.
Thm_C20 ==
    /\ \A p \in RegisteredPaths : Cardinality(ArmsOf(p)) = 1
    /\ \A i \in 1..Len(DispatchArms) :
          DispatchArms[i].path[1] # "sudo" => DispatchArms[i].path \in RegisteredPaths
    /\ \A i, j \in 1..Len(DispatchArms) :
          i # j => DispatchArms[i].handler # DispatchArms[j].handler
    /\ handler.some =>
          /\ handler.val \notin UnknownFallbacks
          /\ RunPath \in RegisteredPaths
          /\ \E i \in ArmsOf(RunPath) : DispatchArms[i].handler = handler.val
          /\ pc = "returned" => stages # <<>>

\* "pin ack" has been dispatched to ack_pin and has returned
Witness_C20 ==
    /\ cmd = "pin" /\ sub = Some("ack") /\ handler = Some("ack_pin")
    /\ pc = "returned"

\* stage st has run in the invocation X
RanIn(X, st) == \E i \in 1..Len(X.stages) : X.stages[i] = st

\* what a handler run alone derives from a mnemonic and a password argument
AloneSeed(m, pa) == ToSeed(m, IF pa.some THEN pa.val ELSE "")

AloneKey(m, pa) == DeriveFromPath(AloneSeed(m, pa), CanonicalPath)

AloneAccount(m, pa) == AccountIdOf(ScalarMul(AloneKey(m, pa).val.key), "gvlt")

\* what the invocation X has printed is its own account_id and phrase
PrintsItsOwn(X) ==
    \/ X.stdout = <<>>
    \/ /\ Len(X.stdout) = 1 /\ IsRendered(X.stdout[1])
       /\ X.stdout[1].format = X.matches.format.val
       /\ X.stdout[1].value.account_id = X.account_id.val
       /\ X.cmd = "keygen" => X.stdout[1].value.mnemonic = MnemonicPhrase(X.mnemonic.val)
    \/ /\ Len(X.stdout) = 1 /\ ~IsRendered(X.stdout[1])
       /\ X.cmd = "compute-key" /\ X.stdout[1].text = "Unknown format"
    \/ /\ Len(X.stdout) = 2 /\ X.cmd = "keygen"
       /\ X.stdout[1].text = X.account_id.val
       /\ X.stdout[2].text = MnemonicPhrase(X.mnemonic.val)

\* the invocation X has computed, returned and printed what a handler run alone
\* computes, returns and prints for the inputs of X
AsAlone(X) ==
    (X.cmd \in KeyCommands /\ X.pc # "exited") =>
        /\ (X.cmd = "compute-key" /\ RanIn(X, "mnemonic")) =>
              LET r == ParseMnemonic(X.matches.mnemonic.val)
              IN  IF r.ok THEN X.mnemonic = Some(r.val)
                  ELSE X.mnemonic = None /\ X.handler_result = Returned(r.err)
        /\ X.seed.some => X.seed.val = AloneSeed(X.mnemonic.val, X.matches.password)
        /\ RanIn(X, "derive") =>
              LET d == AloneKey(X.mnemonic.val, X.matches.password)
              IN  IF d.ok THEN X.child_xprv = Some(d.val)
                  ELSE X.child_xprv = None /\ X.handler_result = Returned(d.err)
        /\ X.account_id.some =>
              X.account_id.val = AloneAccount(X.mnemonic.val, X.matches.password).val
        /\ PrintsItsOwn(X)
        /\ X.handler_result.kind = "ok" => (X.account_id.some /\ X.stdout # <<>>)
        /\ X.handler_result.kind \in {"err", "panic"} => X.stdout = <<>>

\* the keygen invocation X is in flight and has written its phrase to its file
Wrote(X) ==
    /\ X.cmd = "keygen" /\ X.pc \in {"print", "returned"}
    /\ X.matches.file.some /\ X.handler_result.kind \in {"none", "ok"}

\* the invocation X has failed
Failed(X) == X.handler_result.kind \in {"err", "panic"}

FileKeptUnlessShared(X, Y) ==
    (Wrote(X) /\ fs[X.matches.file.val] # Some(MnemonicPhrase(X.mnemonic.val))) =>
        /\ Y.cmd = "keygen"
        /\ Y.pc # "exited" =>
              /\ RanIn(Y, "file")
              /\ Y.matches.file = X.matches.file
              /\ fs[X.matches.file.val] \in {Some(<<>>), Some(MnemonicPhrase(Y.mnemonic.val))}

C13_RunAlone == AsAlone(Context)

=============================================================================
